---- MODULE Spec2Model ----
(***************************************************************************)
(* Model of fix.py: a walk over the *.html files of a directory tree that  *)
(* makes sure every file carries the cookie gate script and the recheck    *)
(* scheduler script, keeping a .bak copy of each file it rewrites.         *)
(*                                                                         *)
(* Text is a sequence of one-character strings.  A file's contents is a    *)
(* sequence of markup tokens (start tag, end tag, void element, complete   *)
(* script element); html.parser builds the tree from them and str(soup)    *)
(* writes the tree back as tokens.                                         *)
(***************************************************************************)
EXTENDS Integers, Sequences, FiniteSets

VARIABLES disk, bak, run, idx, pc, soup, head, gate_inserted, sched_inserted,
          pre, done, err

vars == <<disk, bak, run, idx, pc, soup, head, gate_inserted, sched_inserted,
          pre, done, err>>

(***************************************************************************)
(* Bounds of the model.                                                    *)
(***************************************************************************)
MaxTokens == 3
MaxText == 5

(***************************************************************************)
(* Text: str.strip, str.splitlines, str.rstrip, "\n".join                  *)
(* A character that has no escape here is written by its code point.       *)
(***************************************************************************)
\* the characters str.strip and str.rstrip remove (str.isspace)
Whitespace ==
    {" ", "\t", "\n", "\r", "\f", "U+000B", "U+001C", "U+001D", "U+001E", "U+001F",
     "U+0085", "U+00A0", "U+1680", "U+2000", "U+2001", "U+2002", "U+2003", "U+2004",
     "U+2005", "U+2006", "U+2007", "U+2008", "U+2009", "U+200A", "U+2028", "U+2029",
     "U+202F", "U+205F", "U+3000"}

\* the characters at which str.splitlines ends a line ("\r\n" ends one line)
LineBreaks ==
    {"\n", "\r", "\f", "U+000B", "U+001C", "U+001D", "U+001E", "U+0085", "U+2028",
     "U+2029"}

RECURSIVE lstrip(_)
lstrip(a) ==
    IF a = <<>> THEN <<>>
    ELSE IF Head(a) \in Whitespace THEN lstrip(Tail(a))
    ELSE a

RECURSIVE rstrip(_)
rstrip(a) ==
    IF a = <<>> THEN <<>>
    ELSE IF a[Len(a)] \in Whitespace THEN rstrip(SubSeq(a, 1, Len(a) - 1))
    ELSE a

strip(a) == rstrip(lstrip(a))

RECURSIVE SplitFrom(_, _)
SplitFrom(a, cur) ==
    IF a = <<>> THEN (IF cur = <<>> THEN <<>> ELSE <<cur>>)
    ELSE IF Head(a) \in LineBreaks
         THEN LET rest == IF Head(a) = "\r" /\ Len(a) >= 2 /\ a[2] = "\n"
                          THEN Tail(Tail(a))
                          ELSE Tail(a)
              IN  <<cur>> \o SplitFrom(rest, <<>>)
         ELSE SplitFrom(Tail(a), Append(cur, Head(a)))

splitlines(a) == SplitFrom(a, <<>>)

RECURSIVE join(_)
join(lines) ==
    IF lines = <<>> THEN <<>>
    ELSE IF Len(lines) = 1 THEN lines[1]
    ELSE lines[1] \o <<"\n">> \o join(Tail(lines))

Normalize(a) ==
    LET ls == splitlines(strip(a))
    IN  join([i \in 1..Len(ls) |-> rstrip(ls[i])])

script_text_equal(a, b) == Normalize(a) = Normalize(b)

(***************************************************************************)
(* The two script bodies.  Like the literals of the source, each has       *)
(* several lines, an indented line, and no surrounding or trailing         *)
(* whitespace: Normalize leaves it as it is.                               *)
(***************************************************************************)
TOP_COOKIE_GATE == <<"g", "\n", " ", "g">>

END_SCHEDULER_BLOCK == <<"s", "\n", " ", "s">>

(***************************************************************************)
(* The document tree.  A node is a record; the soup is the sequence of its *)
(* top-level nodes.  A node is addressed by the path of child indices      *)
(* that leads to it.                                                       *)
(***************************************************************************)
Tag(name, kids) == [tag |-> name, src |-> FALSE, text |-> <<>>, kids |-> kids]

ScriptTag(src, text) == [tag |-> "script", src |-> src, text |-> text, kids |-> <<>>]

new_tag(name) == Tag(name, <<>>)

\* s.string = code on a fresh script tag
NewScript(code) == ScriptTag(FALSE, code)

\* soup.find(name): the path of the first tag of that name in document order,
\* <<>> when there is none
RECURSIVE Find(_, _)
Find(nodes, name) ==
    IF nodes = <<>> THEN <<>>
    ELSE IF nodes[1].tag = name THEN <<1>>
    ELSE LET sub == Find(nodes[1].kids, name)
         IN  IF sub # <<>> THEN <<1>> \o sub
             ELSE LET rest == Find(Tail(nodes), name)
                  IN  IF rest = <<>> THEN <<>>
                      ELSE <<rest[1] + 1>> \o Tail(rest)

\* tag.insert(pos, new), with the tag given by its path (<<>>: the soup itself)
RECURSIVE InsertChild(_, _, _, _)
InsertChild(nodes, path, pos, new) ==
    IF path = <<>>
    THEN SubSeq(nodes, 1, pos) \o <<new>> \o SubSeq(nodes, pos + 1, Len(nodes))
    ELSE [nodes EXCEPT ![path[1]].kids = InsertChild(@, Tail(path), pos, new)]

RECURSIVE NodeAt(_, _)
NodeAt(nodes, path) ==
    IF Len(path) = 1 THEN nodes[path[1]]
    ELSE NodeAt(nodes[path[1]].kids, Tail(path))

\* tag.append(new)
AppendChild(nodes, path, new) ==
    InsertChild(nodes, path, Len(NodeAt(nodes, path).kids), new)

\* soup.find_all("script"): the script tags in document order
RECURSIVE find_all_script(_)
find_all_script(nodes) ==
    IF nodes = <<>> THEN <<>>
    ELSE (IF nodes[1].tag = "script" THEN <<nodes[1]>> ELSE <<>>)
         \o find_all_script(nodes[1].kids)
         \o find_all_script(Tail(nodes))

\* s.string, or s.get_text() (the empty string) for a script with no content
ScriptString(s) == s.text

IsExactScript(s, code) == ~s.src /\ script_text_equal(ScriptString(s), code)

\* a faulty variant: the test for an external source is left out
find_exact_script_AnySrc(nodes, code) ==
    SelectSeq(find_all_script(nodes),
              LAMBDA s : script_text_equal(ScriptString(s), code))

find_exact_script(nodes, code) ==
    SelectSeq(find_all_script(nodes), LAMBDA s : IsExactScript(s, code))

\* a faulty variant: the new head is appended to the html element, not put first
ensure_head_exists_Append(nodes) ==
    IF Find(nodes, "head") = <<>>
    THEN IF Find(nodes, "html") # <<>>
         THEN AppendChild(nodes, Find(nodes, "html"), new_tag("head"))
         ELSE InsertChild(nodes, <<>>, 0, Tag("html", <<new_tag("head")>>))
    ELSE nodes

ensure_head_exists(nodes) ==
    IF Find(nodes, "head") = <<>>
    THEN IF Find(nodes, "html") # <<>>
         THEN InsertChild(nodes, Find(nodes, "html"), 0, new_tag("head"))
         ELSE InsertChild(nodes, <<>>, 0, Tag("html", <<new_tag("head")>>))
    ELSE nodes

insert_top_cookie_gate(nodes, h) ==
    IF find_exact_script(nodes, TOP_COOKIE_GATE) # <<>>
    THEN [soup |-> nodes, ret |-> FALSE]
    ELSE [soup |-> InsertChild(nodes, h, 0, NewScript(TOP_COOKIE_GATE)), ret |-> TRUE]

insert_end_scheduler(nodes, h) ==
    IF find_exact_script(nodes, END_SCHEDULER_BLOCK) # <<>>
    THEN [soup |-> nodes, ret |-> FALSE]
    ELSE [soup |-> AppendChild(nodes, h, NewScript(END_SCHEDULER_BLOCK)), ret |-> TRUE]

(***************************************************************************)
(* Markup tokens, BeautifulSoup(html, "html.parser") and str(soup).        *)
(***************************************************************************)
Open(name) == [kind |-> "open", tag |-> name, src |-> FALSE, text |-> <<>>]

Close(name) == [kind |-> "close", tag |-> name, src |-> FALSE, text |-> <<>>]

Void(name) == [kind |-> "void", tag |-> name, src |-> FALSE, text |-> <<>>]

Script(src, text) == [kind |-> "script", tag |-> "script", src |-> src, text |-> text]

ROOT_TAG_NAME == "[document]"

\* BeautifulSoup.ASCII_SPACES
ASCII_SPACES == {" ", "\n", "\t", "\f", "\r"}

\* endData: a string of ASCII whitespace alone, outside pre and textarea,
\* becomes one newline if it holds one and one space if not
endData(text) ==
    IF text # <<>> /\ \A i \in 1..Len(text) : text[i] \in ASCII_SPACES
    THEN (IF \E i \in 1..Len(text) : text[i] = "\n" THEN <<"\n">> ELSE <<" ">>)
    ELSE text

\* popTag: the innermost open tag is closed and becomes a child of the one below
PopTag(stack) ==
    LET n == Len(stack)
    IN  [SubSeq(stack, 1, n - 1) EXCEPT ![n - 1].kids = Append(@, stack[n])]

\* _popToTag: close every open tag down to the most recent one of that name
RECURSIVE PopToTag(_, _)
PopToTag(stack, name) ==
    IF stack[Len(stack)].tag = name THEN PopTag(stack)
    ELSE PopToTag(PopTag(stack), name)

RECURSIVE PopAll(_)
PopAll(stack) == IF Len(stack) = 1 THEN stack ELSE PopAll(PopTag(stack))

AppendToTop(stack, node) == [stack EXCEPT ![Len(stack)].kids = Append(@, node)]

Feed(stack, tok) ==
    CASE tok.kind = "open" -> Append(stack, new_tag(tok.tag))
      [] tok.kind = "close" ->
            IF \E i \in 2..Len(stack) : stack[i].tag = tok.tag
            THEN PopToTag(stack, tok.tag)
            ELSE stack
      [] tok.kind = "void" -> AppendToTop(stack, new_tag(tok.tag))
      [] tok.kind = "script" ->
            AppendToTop(stack, ScriptTag(tok.src, endData(tok.text)))

RECURSIVE FeedAll(_, _)
FeedAll(stack, toks) ==
    IF toks = <<>> THEN stack ELSE FeedAll(Feed(stack, Head(toks)), Tail(toks))

Parse(toks) == PopAll(FeedAll(<<new_tag(ROOT_TAG_NAME)>>, toks))[1].kids

VoidTags == {"meta"}

RECURSIVE Serialize(_)
Serialize(nodes) ==
    IF nodes = <<>> THEN <<>>
    ELSE LET n == nodes[1]
         IN  (CASE n.tag = "script" -> <<Script(n.src, n.text)>>
                [] n.tag \in VoidTags -> <<Void(n.tag)>>
                [] OTHER -> <<Open(n.tag)>> \o Serialize(n.kids) \o <<Close(n.tag)>>)
             \o Serialize(Tail(nodes))

(***************************************************************************)
(* The files.  The walk yields the paths in a fixed order; every file      *)
(* starts as some token sequence, MaxTokens tokens at most over the walk.  *)
(***************************************************************************)
Walk == <<"a.html", "sub/b.html">>

Paths == {Walk[i] : i \in 1..Len(Walk)}

\* the contents of a path at which there is no file
NoFile == <<[kind |-> "absent", tag |-> "", src |-> FALSE, text |-> <<>>]>>

OTHER_SCRIPT == <<"g">>

GATE_VARIANT == <<"g", " ", "\n", " ", "g", "\n">>

Tokens ==
    {Open("html"), Open("head"), Close("head"), Void("meta"),
     Script(FALSE, GATE_VARIANT), Script(FALSE, END_SCHEDULER_BLOCK),
     Script(FALSE, OTHER_SCRIPT), Script(TRUE, TOP_COOKIE_GATE)}

RECURSIVE SeqsUpTo(_, _)
SeqsUpTo(S, n) ==
    IF n = 0 THEN {<<>>}
    ELSE LET shorter == SeqsUpTo(S, n - 1)
         IN  shorter \cup {Append(q, x) : q \in shorter, x \in S}

\* the contents of i files, n tokens at most in all
RECURSIVE Contents(_, _)
Contents(i, n) ==
    IF i = 0 THEN {<<>>}
    ELSE UNION {{<<d>> \o rest : rest \in Contents(i - 1, n - Len(d))} :
                d \in SeqsUpTo(Tokens, n)}

IndexOf(p) == CHOOSE i \in 1..Len(Walk) : Walk[i] = p

Prefixes(toks) == {SubSeq(toks, 1, n) : n \in 0..(Len(toks) - 1)}

path == Walk[idx]

NoSoup == <<>>

Init ==
    /\ \E ds \in Contents(Len(Walk), MaxTokens) :
           disk = [p \in Paths |-> ds[IndexOf(p)]]
    /\ bak = [p \in Paths |-> NoFile]
    /\ run = "first"
    /\ idx = 1
    /\ pc = "read"
    /\ soup = NoSoup
    /\ head = <<>>
    /\ gate_inserted = FALSE
    /\ sched_inserted = FALSE
    /\ pre = [p \in Paths |-> NoFile]
    /\ done = {}
    /\ err = FALSE

\* lines 101-102: html = path.read_text(...); soup = BeautifulSoup(html, "html.parser")
Read ==
    /\ pc = "read"
    /\ soup' = Parse(disk[path])
    /\ pre' = [pre EXCEPT ![path] = disk[path]]
    /\ pc' = "head"
    /\ UNCHANGED <<disk, bak, run, idx, head, gate_inserted, sched_inserted, done, err>>

\* a faulty variant: the error of one file is caught and the walk goes on
ReadFail_Continue ==
    /\ pc = "read"
    /\ idx' = IF idx < Len(Walk) THEN idx + 1 ELSE idx
    /\ pc' = IF idx < Len(Walk) THEN "read" ELSE "end"
    /\ err' = TRUE
    /\ UNCHANGED <<disk, bak, run, soup, head, gate_inserted, sched_inserted,
                   pre, done>>

\* line 101 raises
ReadFail ==
    /\ pc = "read"
    /\ pc' = "error"
    /\ err' = TRUE
    /\ UNCHANGED <<disk, bak, run, idx, soup, head, gate_inserted, sched_inserted,
                   pre, done>>

\* line 103: head = ensure_head_exists(soup)
EnsureHead ==
    /\ pc = "head"
    /\ soup' = ensure_head_exists(soup)
    /\ head' = Find(soup', "head")
    /\ pc' = "gate"
    /\ UNCHANGED <<disk, bak, run, idx, gate_inserted, sched_inserted, pre, done, err>>

\* line 104: insert_top_cookie_gate(soup, head)
InsertGate ==
    /\ pc = "gate"
    /\ soup' = insert_top_cookie_gate(soup, head).soup
    /\ gate_inserted' = insert_top_cookie_gate(soup, head).ret
    /\ pc' = "sched"
    /\ UNCHANGED <<disk, bak, run, idx, head, sched_inserted, pre, done, err>>

\* line 105: insert_end_scheduler(soup, head)
InsertScheduler ==
    /\ pc = "sched"
    /\ soup' = insert_end_scheduler(soup, head).soup
    /\ sched_inserted' = insert_end_scheduler(soup, head).ret
    /\ pc' = "backup"
    /\ UNCHANGED <<disk, bak, run, idx, head, gate_inserted, pre, done, err>>

\* a faulty variant: the backup is written from the parsed text, not copied
Backup_Reserialized ==
    /\ pc = "backup"
    /\ bak' = [bak EXCEPT ![path] = Serialize(Parse(disk[path]))]
    /\ pc' = "write"
    /\ UNCHANGED <<disk, run, idx, soup, head, gate_inserted, sched_inserted,
                   pre, done, err>>

\* a faulty variant: the copy is taken of the file as the write leaves it
Backup_AfterWrite ==
    /\ pc = "backup"
    /\ bak' = [bak EXCEPT ![path] = Serialize(soup)]
    /\ pc' = "write"
    /\ UNCHANGED <<disk, run, idx, soup, head, gate_inserted, sched_inserted,
                   pre, done, err>>

\* lines 106-107: shutil.copyfile(path, backup)
Backup ==
    /\ pc = "backup"
    /\ bak' = [bak EXCEPT ![path] = disk[path]]
    /\ pc' = "write"
    /\ UNCHANGED <<disk, run, idx, soup, head, gate_inserted, sched_inserted,
                   pre, done, err>>

\* line 107 raises: the backup is as it was, or holds the start of the copy
BackupFail ==
    /\ pc = "backup"
    /\ \E b \in {bak[path]} \cup Prefixes(disk[path]) :
           bak' = [bak EXCEPT ![path] = b]
    /\ pc' = "error"
    /\ err' = TRUE
    /\ UNCHANGED <<disk, run, idx, soup, head, gate_inserted, sched_inserted,
                   pre, done>>

\* a faulty variant: the file is written only when something was inserted
Write_OnlyIfInserted ==
    /\ pc = "write"
    /\ disk' = IF gate_inserted \/ sched_inserted
               THEN [disk EXCEPT ![path] = Serialize(soup)]
               ELSE disk
    /\ pc' = "report"
    /\ UNCHANGED <<bak, run, idx, soup, head, gate_inserted, sched_inserted,
                   pre, done, err>>

\* line 108: path.write_text(str(soup), encoding="utf-8")
Write ==
    /\ pc = "write"
    /\ disk' = [disk EXCEPT ![path] = Serialize(soup)]
    /\ pc' = "report"
    /\ UNCHANGED <<bak, run, idx, soup, head, gate_inserted, sched_inserted,
                   pre, done, err>>

\* line 108 raises: the file is as it was, or holds the start of the new text
WriteFail ==
    /\ pc = "write"
    /\ \E d \in {disk[path]} \cup Prefixes(Serialize(soup)) :
           disk' = [disk EXCEPT ![path] = d]
    /\ pc' = "error"
    /\ err' = TRUE
    /\ UNCHANGED <<bak, run, idx, soup, head, gate_inserted, sched_inserted,
                   pre, done>>

\* line 109, and the next turn of the loop of main (line 113)
Report ==
    /\ pc = "report"
    /\ done' = done \cup {path}
    /\ idx' = IF idx < Len(Walk) THEN idx + 1 ELSE idx
    /\ pc' = IF idx < Len(Walk) THEN "read" ELSE "end"
    /\ soup' = NoSoup
    /\ head' = <<>>
    /\ gate_inserted' = FALSE
    /\ sched_inserted' = FALSE
    /\ UNCHANGED <<disk, bak, run, pre, err>>

\* lines 116-117: the script is run a second time over the same tree
Rerun ==
    /\ pc = "end"
    /\ run = "first"
    /\ run' = "second"
    /\ idx' = 1
    /\ pc' = "read"
    /\ done' = {}
    /\ UNCHANGED <<disk, bak, soup, head, gate_inserted, sched_inserted, pre, err>>

Next ==
    \/ Read
    \/ ReadFail
    \/ EnsureHead
    \/ InsertGate
    \/ InsertScheduler
    \/ Backup
    \/ BackupFail
    \/ Write
    \/ WriteFail
    \/ Report
    \/ Rerun

Spec == Init /\ [][Next]_vars

(***************************************************************************)
(* A second specification: one file whose head holds one inline script of  *)
(* any text of MaxText characters at most, taken up to the two insertions. *)
(***************************************************************************)
Chars == {"g", "s", " ", "\t", "\n", "\f", "U+001F"}

InitText ==
    /\ \E t \in SeqsUpTo(Chars, MaxText) :
           disk = [p \in Paths |->
                      IF p = Walk[1]
                      THEN <<Open("head"), Script(FALSE, t), Close("head")>>
                      ELSE <<>>]
    /\ bak = [p \in Paths |-> NoFile]
    /\ run = "first"
    /\ idx = 1
    /\ pc = "read"
    /\ soup = NoSoup
    /\ head = <<>>
    /\ gate_inserted = FALSE
    /\ sched_inserted = FALSE
    /\ pre = [p \in Paths |-> NoFile]
    /\ done = {}
    /\ err = FALSE

NextText ==
    \/ Read
    \/ EnsureHead
    \/ InsertGate
    \/ InsertScheduler

SpecText == InitText /\ [][NextText]_vars

(***************************************************************************)
(* Vocabulary of the properties.                                           *)
(***************************************************************************)
\* the document the current run of process_file read
Before == Parse(pre[path])

\* process_file has written the current file and not yet reported it
Processed == pc = "report"

\* an inline script whose normalized text is that of code
Matches(s, code) ==
    /\ s.tag = "script"
    /\ ~s.src
    /\ Normalize(s.text) = code

MatchingIn(nodes, code) ==
    SelectSeq(find_all_script(nodes), LAMBDA s : Matches(s, code))

\* the scripts that match neither body, or are external
UnrelatedIn(nodes) ==
    SelectSeq(find_all_script(nodes),
              LAMBDA s : ~Matches(s, TOP_COOKIE_GATE) /\ ~Matches(s, END_SCHEDULER_BLOCK))

HeadKids == NodeAt(soup, head).kids

RECURSIVE CountTag(_, _)
CountTag(nodes, name) ==
    IF nodes = <<>> THEN 0
    ELSE (IF nodes[1].tag = name THEN 1 ELSE 0)
         + CountTag(nodes[1].kids, name)
         + CountTag(Tail(nodes), name)

\* C1: after process_file the head element holds an inline script matching the
\* gate and one matching the scheduler, whatever the input document was.
C1_HeadHasBoth ==
    Processed =>
        /\ MatchingIn(HeadKids, TOP_COOKIE_GATE) # <<>>
        /\ MatchingIn(HeadKids, END_SCHEDULER_BLOCK) # <<>>

\* C2: the second of two runs in succession inserts nothing, leaves the number
\* of matching scripts as the first run left it, and the head then holds
\* exactly one gate script and exactly one scheduler script.
C2_SecondRunExactlyOne ==
    (Processed /\ run = "second") =>
        /\ ~gate_inserted
        /\ ~sched_inserted
        /\ Len(MatchingIn(soup, TOP_COOKIE_GATE)) = Len(MatchingIn(Before, TOP_COOKIE_GATE))
        /\ Len(MatchingIn(soup, END_SCHEDULER_BLOCK))
               = Len(MatchingIn(Before, END_SCHEDULER_BLOCK))
        /\ Len(MatchingIn(HeadKids, TOP_COOKIE_GATE)) = 1
        /\ Len(MatchingIn(HeadKids, END_SCHEDULER_BLOCK)) = 1

\* What holds of C2: the second run inserts nothing and leaves the number of
\* matching scripts of the document as the first run left it.
C2_SecondRunInsertsNothing ==
    (Processed /\ run = "second") =>
        /\ ~gate_inserted
        /\ ~sched_inserted
        /\ Len(MatchingIn(soup, TOP_COOKIE_GATE)) = Len(MatchingIn(Before, TOP_COOKIE_GATE))
        /\ Len(MatchingIn(soup, END_SCHEDULER_BLOCK))
               = Len(MatchingIn(Before, END_SCHEDULER_BLOCK))
        /\ disk[path] = pre[path]

\* the children the head had when the file was read (none if it had no head)
HeadKidsBefore ==
    IF Find(Before, "head") = <<>> THEN <<>>
    ELSE NodeAt(Before, Find(Before, "head")).kids

\* C3: after process_file the first child of the head is a script whose text
\* is exactly the gate, the last child is a script whose text is exactly the
\* scheduler, and the children the head had before lie between them in their
\* old order.
C3_GateFirstSchedulerLast ==
    Processed =>
        /\ Len(HeadKids) >= 2
        /\ HeadKids[1] = NewScript(TOP_COOKIE_GATE)
        /\ HeadKids[Len(HeadKids)] = NewScript(END_SCHEDULER_BLOCK)
        /\ SubSeq(HeadKids, 2, Len(HeadKids) - 1) = HeadKidsBefore

\* C4: the backup of every processed file equals, byte for byte, what the file
\* held when that run of process_file read it.
C4_BackupFidelity ==
    \A p \in Paths :
        (p \in done \/ (p = path /\ pc \in {"write", "report"})) => bak[p] = pre[p]

\* a processed file that the run changed, beside the backup of what it was
C4_Witness ==
    /\ Processed
    /\ disk[path] # pre[path]
    /\ bak[path] = pre[path]

\* whitespace that does not end a line of the text
InlineSpace == Whitespace \ {"\n"}

\* t is c with characters of pad added at the end of lines, and whitespace
\* after the last line
RECURSIVE PaddedLines(_, _, _)
PaddedLines(t, c, pad) ==
    IF c = <<>> THEN \A i \in 1..Len(t) : t[i] \in Whitespace
    ELSE IF t = <<>> THEN FALSE
    ELSE IF Head(c) = "\n"
         THEN IF Head(t) = "\n" THEN PaddedLines(Tail(t), Tail(c), pad)
              ELSE Head(t) \in pad /\ PaddedLines(Tail(t), c, pad)
         ELSE Head(t) = Head(c) /\ PaddedLines(Tail(t), Tail(c), pad)

\* t differs from c only by characters of pad at the end of lines and by
\* whitespace or blank lines around the whole text
IsVariantBy(t, c, pad) ==
    \E k \in 0..Len(t) :
        /\ \A i \in 1..k : t[i] \in Whitespace
        /\ PaddedLines(SubSeq(t, k + 1, Len(t)), c, pad)

IsVariant(t, c) == IsVariantBy(t, c, InlineSpace)

\* the text of the script the file held
GivenText == pre[path][2].text

\* C5: an inline script that differs from the gate or the scheduler only by
\* trailing whitespace on lines and whitespace around the text is found by
\* find_exact_script, and the matching insert function inserts nothing.
C5_VariantRecognized ==
    /\ (pc = "sched" /\ IsVariant(GivenText, TOP_COOKIE_GATE)) =>
           /\ ~gate_inserted
           /\ soup = Before
           /\ find_exact_script(soup, TOP_COOKIE_GATE) # <<>>
    /\ (pc = "backup" /\ IsVariant(GivenText, END_SCHEDULER_BLOCK)) =>
           /\ ~sched_inserted
           /\ find_exact_script(soup, END_SCHEDULER_BLOCK) # <<>>

\* whitespace at which str.splitlines does not end a line
NoBreakSpace == Whitespace \ LineBreaks

\* What holds of C5: with whitespace that ends no line as the trailing
\* whitespace of the lines (and any whitespace around the text) the script is
\* recognised.
C5_NoBreakVariantRecognized ==
    /\ (pc = "sched" /\ IsVariantBy(GivenText, TOP_COOKIE_GATE, NoBreakSpace)) =>
           /\ ~gate_inserted
           /\ soup = Before
    /\ (pc = "backup" /\ IsVariantBy(GivenText, END_SCHEDULER_BLOCK, NoBreakSpace)) =>
           ~sched_inserted

\* C6: the scripts that match neither body (or are external) are all still
\* there after process_file, in their order and with their text, and they do
\* not count as matches: a body no script of the document matched is inserted
\* into the head, the gate as first child, the scheduler as last.
C6_UnrelatedScriptsStay ==
    Processed =>
        /\ UnrelatedIn(soup) = UnrelatedIn(Before)
        /\ MatchingIn(Before, TOP_COOKIE_GATE) = <<>> =>
               /\ gate_inserted
               /\ HeadKids[1] = NewScript(TOP_COOKIE_GATE)
        /\ MatchingIn(Before, END_SCHEDULER_BLOCK) = <<>> =>
               /\ sched_inserted
               /\ HeadKids[Len(HeadKids)] = NewScript(END_SCHEDULER_BLOCK)

\* a document with an external script and an unrelated inline script, and both
\* bodies inserted
C6_Witness ==
    /\ Processed
    /\ gate_inserted
    /\ sched_inserted
    /\ \E i \in 1..Len(UnrelatedIn(Before)) : UnrelatedIn(Before)[i].src
    /\ \E i \in 1..Len(UnrelatedIn(Before)) : ~UnrelatedIn(Before)[i].src
    /\ UnrelatedIn(soup) = UnrelatedIn(Before)

\* the tree without the node at the path
RECURSIVE RemoveAt(_, _)
RemoveAt(nodes, at) ==
    IF Len(at) = 1
    THEN SubSeq(nodes, 1, at[1] - 1) \o SubSeq(nodes, at[1] + 1, Len(nodes))
    ELSE [nodes EXCEPT ![at[1]].kids = RemoveAt(@, Tail(at))]

Max(a, b) == IF a >= b THEN a ELSE b

\* what C7 says of where the head is, and of a second call
C7_Placement ==
    LET hb == Find(Before, "head")
        mb == Find(Before, "html")
    IN  /\ hb # <<>> => (soup = Before /\ head = hb)
        /\ (hb = <<>> /\ mb # <<>>) =>
               /\ head = mb \o <<1>>
               /\ NodeAt(soup, head) = new_tag("head")
               /\ RemoveAt(soup, head) = Before
        /\ (hb = <<>> /\ mb = <<>>) =>
               /\ soup = <<Tag("html", <<new_tag("head")>>)>> \o Before
               /\ head = <<1, 1>>
        /\ ensure_head_exists(soup) = soup
        /\ Find(ensure_head_exists(soup), "head") = head

\* C7 as amended: ensure_head_exists returns the first head there is; with an
\* html element and no head it puts a new head first in that element; with
\* neither it puts a new html element, holding a new head, first in the
\* document; a second call changes nothing and returns the same head.  It adds
\* a head only where there was none and an html element only where there was
\* neither: the heads are as many as the document had, or one.
C7_EnsureHead ==
    pc = "gate" =>
        /\ C7_Placement
        /\ CountTag(soup, "head") = Max(1, CountTag(Before, "head"))
        /\ CountTag(soup, "html") =
               IF Find(Before, "head") = <<>> /\ Find(Before, "html") = <<>>
               THEN 1
               ELSE CountTag(Before, "html")

\* C7 as stated: afterwards the document has exactly one head and at most one
\* html element that was made for it.
C7_ExactlyOneHead ==
    pc = "gate" =>
        /\ C7_Placement
        /\ CountTag(soup, "head") = 1
        /\ CountTag(soup, "html") <= CountTag(Before, "html") + 1

\* an html element with children and no head: the new head is its first child
C7_Witness ==
    /\ pc = "gate"
    /\ Find(Before, "head") = <<>>
    /\ Find(Before, "html") # <<>>
    /\ NodeAt(Before, Find(Before, "html")).kids # <<>>
    /\ NodeAt(soup, Find(Before, "html")).kids[1] = new_tag("head")

\* C8: every run of process_file that gets through has rewritten the backup
\* with what the file held and the file with the serialized document, also
\* when it inserted nothing.
C8_AlwaysBackupAndWrite ==
    Processed =>
        /\ bak[path] = pre[path]
        /\ disk[path] = Serialize(soup)

\* a second run that inserted nothing and wrote both files all the same
C8_Witness ==
    /\ Processed
    /\ run = "second"
    /\ ~gate_inserted
    /\ ~sched_inserted
    /\ bak[path] = pre[path]
    /\ disk[path] = Serialize(soup)

\* the files the walk has gone past in this run
Passed == {Walk[j] : j \in 1..(IF pc = "end" THEN Len(Walk) ELSE idx - 1)}

\* C9: the files are taken one at a time in the order of the walk, each through
\* all its steps before the next; a step touches the current file alone; once
\* a read, a backup or a write has failed no further step is taken, so the
\* later files are untouched and the earlier ones keep backup and new content.
C9_OneAtATimeHaltOnError ==
    /\ [](err => pc = "error")
    /\ [](done = Passed)
    /\ [][/\ ~err
          /\ \A p \in Paths :
                 (disk'[p] # disk[p] \/ bak'[p] # bak[p] \/ pre'[p] # pre[p])
                     => p = path
          /\ idx' # idx => (pc = "report" \/ (pc = "end" /\ run' # run))
          /\ pc' = "read" => pc \in {"report", "end"}]_vars

\* the second file failed after the first was backed up and rewritten
C9_Witness ==
    /\ err
    /\ idx = 2
    /\ Walk[1] \in done
    /\ bak[Walk[1]] = pre[Walk[1]]
    /\ disk[Walk[1]] # pre[Walk[1]]
    /\ bak[Walk[2]] = NoFile

\* C10: a file is changed only at the write step and with its backup holding
\* what the file holds then; a failed read or backup leaves it as it was; in
\* no state is a file changed with no backup of what it was.
C10_BackupBeforeOverwrite ==
    /\ [](\A p \in Paths :
              /\ pre[p] = NoFile => bak[p] = NoFile
              /\ (pre[p] # NoFile /\ disk[p] # pre[p]) => bak[p] = pre[p])
    /\ [][\A p \in Paths :
              disk'[p] # disk[p] =>
                  /\ p = path
                  /\ pc = "write"
                  /\ bak[p] = disk[p]]_vars

\* the write failed part way: the file is cut short, the backup is whole
C10_Witness ==
    /\ err
    /\ run = "first"
    /\ pre[path] # NoFile
    /\ disk[path] # pre[path]
    /\ bak[path] = pre[path]

====
